---- MODULE Spec2Model ----
(***************************************************************************)
(* A model of the activation recorder (hooked_model.py), the precomputed   *)
(* activation store and its loaders (dataset/activations.py), the L1       *)
(* autoencoder's encode step (models/l1autoencoder.py) and the query path  *)
(* of the GUI server (scripts/gui_server.py).                              *)
(***************************************************************************)
EXTENDS Integers, Sequences, FiniteSets, TLC

VARIABLES
    \* ---- recorder (WhisperActivationCache) ----
    activations,   \* self.activations: name -> NoEntry | [seq, width]
    hooks,         \* self.hooks: the forward hooks attached, by submodule name
    step,          \* self.step
    pc,            \* "idle" | "running" (inside custom_forward)
    outcome,       \* how the forward that filled the mapping ended ("none"
                   \* while it runs, before the first one and after reset_state)
    log,           \* the invocations of the current pass: [name, len, id]
    ncalls,        \* number of submodule invocations made so far (ids of captures)
    wide,          \* the submodules of the model whose output is wider than 50
    \* ---- precomputed activation store and its loader ----
    metadata_file, \* <layer>_metadata.json: [filenames, tensor_shapes]
    tensor_file,   \* <layer>_tensors.npy: the rows of the blob
    written,       \* the tensors the collection step flattened into the blob
    ds,            \* the MemoryMappedActivationsDataset, once constructed
    batch_size,    \* the loader's batch_size
    item,          \* what the last dataset[idx] gave
    it,            \* the loader's iteration: state, batches yielded so far
    \* ---- top-activation query ----
    q,             \* the running query: parameters, bounded structure, pass
    result,        \* what get_top_activations returned
    \* ---- L1 autoencoder ----
    sae            \* decoder.weight, the encodes since it was last assigned,
                   \* and what the last of them used and gave

recVars == <<activations, hooks, step, pc, outcome, log, ncalls, wide>>

storeVars == <<metadata_file, tensor_file, written>>

loaderVars == <<ds, batch_size, item, it>>

queryVars == <<q, result>>

vars == <<recVars, storeVars, loaderVars, queryVars, sae>>

\* what the recorder's operations leave alone, and what the loader's do
notRecVars == <<storeVars, loaderVars, queryVars, sae>>

notLoaderVars == <<recVars, storeVars, queryVars, sae>>

notQueryVars == <<recVars, storeVars, item, it, sae>>

notSaeVars == <<recVars, storeVars, loaderVars, queryVars>>

-----------------------------------------------------------------------------
(* Bounds *)
MaxRuns == 3            \* forward calls on one recorder
MaxCalls == 4           \* submodule invocations over all runs
NarrowWidth == 3        \* a feature width below the truncation width
WideWidth == 51         \* a feature width above the truncation width
SeqLens == {1, 2}       \* sequence lengths of a submodule's output
MaxFiles == 3           \* manifest entries, and blob rows, of a store
MaxBatch == 2           \* the largest batch_size
MaxResults == 2         \* the largest n_results of a query
NDict == 3              \* n_dict_components: the dictionary atoms
Shapes == {<<2, 2>>, <<1, 4>>, <<4, 1>>}   \* recorded shapes of one row width

-----------------------------------------------------------------------------
(* Helpers *)

Min(a, b) == IF a < b THEN a ELSE b

\* Python's None, where a number may stand
None == -1

-----------------------------------------------------------------------------
(* Recorder: src/src/hooked_model.py *)

EncoderNames == {"encoder.blocks.0.mlp"}
DecoderNames == {"decoder.blocks.0.mlp"}

\* model.named_modules(), restricted to the names the patterns match
named_modules == <<"encoder.blocks.0.mlp", "decoder.blocks.0.mlp">>

\* self.activations_to_cache
activations_to_cache == {named_modules[i] : i \in 1..Len(named_modules)}

Names == EncoderNames \cup DecoderNames

\* `"decoder" in name`
IsDecoder(name) == name \in DecoderNames

\* the truncation `output_[:, :, :50]`
TruncWidth == 50

NoEntry == [seq |-> <<>>, width |-> 0, present |-> FALSE]

Entry(s, w) == [seq |-> s, width |-> w, present |-> TRUE]

\* the output tensor of invocation `id`: `len` sequence positions of width w
Output(id, len, w) == [seq |-> [j \in 1..len |-> <<id, j>>], width |-> w]

\* the closure returned by WhisperActivationCache._get_caching_hook(name),
\* applied to one output; err names the exception it raises, if any
HookNoDelete(acts, name, output) ==
    IF IsDecoder(name) /\ Len(output.seq) > 1
    THEN [acts |-> acts, err |-> "none"]
    ELSE IF acts[name].present
    THEN IF acts[name].width = output.width
         THEN [acts |-> [acts EXCEPT ![name] =
                           Entry(acts[name].seq \o output.seq, output.width)],
               err |-> "none"]
         ELSE [acts |-> acts, err |-> "RuntimeError"]
    ELSE [acts |-> [acts EXCEPT ![name] =
                      Entry(output.seq, Min(output.width, TruncWidth))],
          err |-> "none"]

CachingHook(acts, name, output) ==
    IF IsDecoder(name) /\ Len(output.seq) > 1
    THEN \* del self.activations[name]; return
         IF acts[name].present
         THEN [acts |-> [acts EXCEPT ![name] = NoEntry], err |-> "none"]
         ELSE [acts |-> acts, err |-> "KeyError"]
    ELSE IF acts[name].present
    THEN \* torch.cat(..., dim=1): the other dimensions must agree
         IF acts[name].width = output.width
         THEN [acts |-> [acts EXCEPT ![name] =
                           Entry(acts[name].seq \o output.seq, output.width)],
               err |-> "none"]
         ELSE [acts |-> acts, err |-> "RuntimeError"]
    ELSE [acts |-> [acts EXCEPT ![name] =
                      Entry(output.seq, Min(output.width, TruncWidth))],
          err |-> "none"]

\* a module call runs every forward hook attached to it, in registration
\* order; the first exception ends the call
RECURSIVE FireHooks(_, _, _, _)
FireHooks(acts, hs, name, output) ==
    IF hs = <<>> THEN [acts |-> acts, err |-> "none"]
    ELSE IF Head(hs) /= name THEN FireHooks(acts, Tail(hs), name, output)
    ELSE LET r == CachingHook(acts, name, output)
         IN  IF r.err /= "none" THEN r
             ELSE FireHooks(r.acts, Tail(hs), name, output)

\* register_hooks: one hook per cached name, appended to self.hooks
RegisterHooks(hs) ==
    hs \o SelectSeq(named_modules, LAMBDA n : n \in activations_to_cache)

\* remove_hooks
RemoveHooks(hs) == <<>>

\* the feature width of each submodule's output (fixed by the model)
OutWidth(name) == IF name \in wide THEN WideWidth ELSE NarrowWidth

\* BaseActivationModule.__init__, on a model with narrow outputs
NoRecorder ==
    /\ activations = [n \in Names |-> NoEntry]
    /\ hooks = <<>>
    /\ step = 0
    /\ pc = "idle"
    /\ outcome = "none"
    /\ log = <<>>
    /\ ncalls = 0
    /\ wide = {}

\* BaseActivationModule.__init__, on any model
InitRecorder ==
    /\ activations = [n \in Names |-> NoEntry]
    /\ hooks = <<>>
    /\ step = 0
    /\ pc = "idle"
    /\ outcome = "none"
    /\ log = <<>>
    /\ ncalls = 0
    /\ wide \in SUBSET Names

\* forward, up to the call of custom_forward (lines 41-44)
ForwardBegin ==
    /\ pc = "idle"
    /\ step < MaxRuns
    /\ step' = step + 1
    /\ hooks' = RegisterHooks(hooks)
    /\ pc' = "running"
    /\ outcome' = "none"
    /\ log' = <<>>
    /\ UNCHANGED <<activations, ncalls, wide, notRecVars>>

\* inside custom_forward the model calls submodule `name`, whose output has
\* `len` sequence positions; its hooks run, and an exception of a hook leaves
\* forward before remove_hooks
Invoke(name, len) ==
    /\ pc = "running"
    /\ ncalls < MaxCalls
    /\ LET id == ncalls + 1
           r == FireHooks(activations, hooks, name, Output(id, len, OutWidth(name)))
       IN  /\ ncalls' = id
           /\ log' = Append(log, [name |-> name, len |-> len, id |-> id])
           /\ activations' = r.acts
           /\ IF r.err = "none"
              THEN UNCHANGED <<pc, outcome>>
              ELSE pc' = "idle" /\ outcome' = r.err
    /\ UNCHANGED <<hooks, step, wide, notRecVars>>

\* custom_forward returns: remove_hooks, return model_out (lines 45-46)
ForwardReturn ==
    /\ pc = "running"
    /\ hooks' = RemoveHooks(hooks)
    /\ pc' = "idle"
    /\ outcome' = "returned"
    /\ UNCHANGED <<activations, step, log, ncalls, wide, notRecVars>>

\* custom_forward raises (model.decode fails): forward is left at line 44
ForwardRaise ==
    /\ pc = "running"
    /\ pc' = "idle"
    /\ outcome' = "ModelError"
    /\ UNCHANGED <<activations, hooks, step, log, ncalls, wide, notRecVars>>

\* reset_state, called by the owner between forwards
ResetState ==
    /\ pc = "idle"
    /\ activations' = [n \in Names |-> NoEntry]
    /\ outcome' = "none"
    /\ UNCHANGED <<hooks, step, pc, log, ncalls, wide, notRecVars>>

\* remove_hooks, called by the owner between forwards
Detach ==
    /\ pc = "idle"
    /\ hooks' = RemoveHooks(hooks)
    /\ UNCHANGED <<activations, step, pc, outcome, log, ncalls, wide, notRecVars>>

NextRecorder ==
    \/ ForwardBegin
    \/ \E name \in Names, len \in SeqLens : Invoke(name, len)
    \/ ForwardReturn
    \/ ForwardRaise
    \/ ResetState
    \/ Detach

-----------------------------------------------------------------------------
(* Precomputed store, dataset and loader: src/src/dataset/activations.py.   *)
(* Sequences are indexed from 1: index i here is Python's index i - 1.      *)

\* a tensor of shape <<r, c>> is a sequence of r rows of c values
Shape(t) == <<Len(t), Len(t[1])>>

RECURSIVE Flatten(_)
\* the collection step's flattening of a tensor into one blob row (row-major)
Flatten(t) == IF t = <<>> THEN <<>> ELSE Head(t) \o Flatten(Tail(t))

\* numpy's reshape with order='F', the wrong order for a row-major blob
ReshapeColumnMajor(flat, shape) ==
    IF shape[1] * shape[2] /= Len(flat)
    THEN [err |-> "ValueError", tensor |-> <<>>]
    ELSE [err |-> "none",
          tensor |-> [r \in 1..shape[1] |->
                        [c \in 1..shape[2] |-> flat[(c - 1) * shape[1] + r]]]]

\* tensor_data.reshape(tensor_shape)
Reshape(flat, shape) ==
    IF shape[1] * shape[2] /= Len(flat)
    THEN [err |-> "ValueError", tensor |-> <<>>]
    ELSE [err |-> "none",
          tensor |-> [r \in 1..shape[1] |->
                        [c \in 1..shape[2] |-> flat[(r - 1) * shape[2] + c]]]]

\* the slice s[:k]; s[:None] is s
Slice(s, k) == IF k = None THEN s ELSE SubSeq(s, 1, Min(k, Len(s)))

NoDataset ==
    [status |-> "none", filenames |-> <<>>, tensor_shapes |-> <<>>,
     mmap |-> <<>>, activation_shape |-> <<>>]

\* MemoryMappedActivationsDataset.__init__: status names the exception that
\* leaves it, if any
NewDataset(meta, blob, subset_size) ==
    LET fn == Slice(meta.filenames, subset_size)
        sh == Slice(meta.tensor_shapes, subset_size)
        mm == Slice(blob, subset_size)
    IN  IF sh = <<>>
        THEN \* _get_activation_shape: tensor_shapes[0] of an empty list
             [NoDataset EXCEPT !.status = "IndexError"]
        ELSE [status |-> "ok", filenames |-> fn, tensor_shapes |-> sh,
              mmap |-> mm, activation_shape |-> sh[1]]

\* MemoryMappedActivationsDataset.__len__
DatasetLen(d) == Len(d.filenames)

NoItem == [status |-> "none", idx |-> 0, tensor |-> <<>>, filename |-> 0]

\* MemoryMappedActivationsDataset.__getitem__(idx), idx >= 1
GetItemOf(d, idx) ==
    IF idx > Len(d.filenames) \/ idx > Len(d.tensor_shapes) \/ idx > Len(d.mmap)
    THEN [NoItem EXCEPT !.status = "IndexError", !.idx = idx]
    ELSE LET r == Reshape(d.mmap[idx], d.tensor_shapes[idx])
         IN  IF r.err /= "none"
             THEN [NoItem EXCEPT !.status = r.err, !.idx = idx]
             ELSE [status |-> "ok", idx |-> idx, tensor |-> r.tensor,
                   filename |-> d.filenames[idx]]

\* MemoryMappedActivationDataLoader.__len__
LoaderLen(d, b) == DatasetLen(d) \div b

\* the k-th batch (k >= 1) of a DataLoader with a sequential sampler and
\* drop_last=True: the items of indices (k-1)*b + 1 .. k*b, stacked.
\* "stop" is the end of the iteration; otherwise status names the exception
\* raised while fetching or stacking, if any
FetchBatch(d, b, k) ==
    IF k * b > DatasetLen(d)
    THEN [status |-> "stop", items |-> <<>>]
    ELSE LET items == [j \in 1..b |-> GetItemOf(d, (k - 1) * b + j)]
             bad == {j \in 1..b : items[j].status /= "ok"}
         IN  IF bad /= {}
             THEN [status |-> items[CHOOSE j \in bad : \A i \in bad : j <= i].status,
                   items |-> <<>>]
             ELSE IF \E j \in 1..b : Shape(items[j].tensor) /= Shape(items[1].tensor)
             THEN \* default_collate: torch.stack of tensors of unequal size
                  [status |-> "RuntimeError", items |-> <<>>]
             ELSE [status |-> "ok", items |-> items]

NoIteration == [state |-> "idle", yielded |-> 0, sizes |-> <<>>]

NoStore ==
    /\ metadata_file = [filenames |-> <<>>, tensor_shapes |-> <<>>]
    /\ tensor_file = <<>>
    /\ written = <<>>

NoLoader ==
    /\ ds = NoDataset
    /\ batch_size = 1
    /\ item = NoItem
    /\ it = NoIteration

\* MemoryMappedActivationDataLoader.__init__(subset_size, batch_size)
Construct(subset_size, b) ==
    /\ ds.status = "none"
    /\ ds' = NewDataset(metadata_file, tensor_file, subset_size)
    /\ batch_size' = b
    /\ UNCHANGED <<item, it, notLoaderVars>>

\* dataset[idx]
GetItem(idx) ==
    /\ ds.status = "ok"
    /\ item' = GetItemOf(ds, idx)
    /\ UNCHANGED <<ds, batch_size, it, notLoaderVars>>

\* iter(loader)
IterBegin ==
    /\ ds.status = "ok"
    /\ it.state = "idle"
    /\ it' = [NoIteration EXCEPT !.state = "running"]
    /\ UNCHANGED <<ds, batch_size, item, notLoaderVars>>

\* next(iterator): one more batch, the end of the iteration, or an exception
IterNext ==
    /\ it.state = "running"
    /\ LET r == FetchBatch(ds, batch_size, it.yielded + 1)
       IN  it' = IF r.status = "ok"
                 THEN [it EXCEPT !.yielded = @ + 1,
                                 !.sizes = Append(@, Len(r.items))]
                 ELSE IF r.status = "stop"
                 THEN [it EXCEPT !.state = "done"]
                 ELSE [it EXCEPT !.state = r.status]
    /\ UNCHANGED <<ds, batch_size, item, notLoaderVars>>

-----------------------------------------------------------------------------
(* Top-activation query: top_activations (src/utils/activations.py, whose   *)
(* code is not part of the sources at hand: modelled from section 4.4 of    *)
(* the specification) and its caller in src/src/scripts/gui_server.py       *)

\* an optional threshold: unset, or <<v>>
Unset == <<>>

Abs(x) == IF x < 0 THEN -x ELSE x

RECURSIVE MaxOf(_)
\* the maximum of a non-empty sequence of numbers
MaxOf(xs) ==
    IF Len(xs) = 1 THEN xs[1]
    ELSE LET m == MaxOf(Tail(xs)) IN IF xs[1] >= m THEN xs[1] ELSE m

\* step 2: the slice of one example for feature f (over sequence positions)
FeatureSlice(tensor, f) == [p \in 1..Len(tensor) |-> tensor[p][f]]

\* step 2: the selection score of a slice
Score(slice, absolute) ==
    IF absolute THEN MaxOf([p \in 1..Len(slice) |-> Abs(slice[p])])
    ELSE MaxOf(slice)

\* step 3: the [min_threshold, max_threshold] window
InWindow(score, min_val, max_val) ==
    /\ min_val = Unset \/ score >= min_val[1]
    /\ max_val = Unset \/ score <= max_val[1]

\* a bounded structure that evicts the entry that came first among the
\* lowest, not last
HeapInsertEvictOldest(heap, e, capacity) ==
    LET before == {i \in 1..Len(heap) : heap[i].score >= e.score}
        k == Cardinality(before)
        all == SubSeq(heap, 1, k) \o <<e>> \o SubSeq(heap, k + 1, Len(heap))
    IN  IF Len(all) > capacity THEN SubSeq(all, 1, capacity - 1) \o <<e>> ELSE all

\* step 4: insert into the bounded structure, kept in rank order (score
\* descending, earlier first among equals); beyond capacity the lowest goes
HeapInsert(heap, e, capacity) ==
    LET before == {i \in 1..Len(heap) : heap[i].score >= e.score}
        k == Cardinality(before)
        all == SubSeq(heap, 1, k) \o <<e>> \o SubSeq(heap, k + 1, Len(heap))
    IN  SubSeq(all, 1, Min(capacity, Len(all)))

\* step 5: the running maximum of a file
UpdateMax(pfm, file, score) ==
    [f \in DOMAIN pfm \cup {file} |->
        IF f = file
        THEN IF file \in DOMAIN pfm /\ pfm[file] >= score THEN pfm[file] ELSE score
        ELSE pfm[f]]

\* steps 2-5 for one example of a batch
ProcessExample(st, ex) ==
    LET slice == FeatureSlice(ex.tensor, st.neuron_idx)
        score == Score(slice, st.absolute_magnitude)
        e == [score |-> score, file |-> ex.filename, slice |-> slice]
    IN  [st EXCEPT
           !.seen = Append(@, [file |-> ex.filename, tensor |-> ex.tensor]),
           !.per_file_max = IF st.return_max_per_file
                            THEN UpdateMax(@, ex.filename, score) ELSE @,
           !.heap = IF InWindow(score, st.min_val, st.max_val)
                    THEN HeapInsert(@, e, st.n_files) ELSE @]

RECURSIVE ProcessBatch(_, _)
\* the examples of one batch, in batch order
ProcessBatch(st, items) ==
    IF items = <<>> THEN st
    ELSE ProcessBatch(ProcessExample(st, Head(items)), Tail(items))

\* step 6: top_activations' return value: the (file, activation) pairs in
\* rank order and the per-file maxima (None when not asked for)
Drain(st) ==
    [top |-> [i \in 1..Len(st.heap) |-> <<st.heap[i].file, st.heap[i].slice>>],
     max_per_file |-> IF st.return_max_per_file THEN st.per_file_max ELSE None]

\* get_top_activations with the lists paired the wrong way round
GetTopActivationsReversed(ret) ==
    [top_files |-> [i \in 1..Len(ret.top) |-> ret.top[i][1]],
     activations |-> [i \in 1..Len(ret.top) |-> ret.top[Len(ret.top) + 1 - i][2]],
     max_per_file |-> ret.max_per_file]

\* get_top_activations: top_files = [x[0] for x in top], activations =
\* [x[1] for x in top]
GetTopActivations(ret) ==
    [top_files |-> [i \in 1..Len(ret.top) |-> ret.top[i][1]],
     activations |-> [i \in 1..Len(ret.top) |-> ret.top[i][2]],
     max_per_file |-> ret.max_per_file]

NoQueryState ==
    [state |-> "none", neuron_idx |-> 1, n_files |-> 0, max_val |-> Unset,
     min_val |-> Unset, absolute_magnitude |-> FALSE,
     return_max_per_file |-> FALSE, heap |-> <<>>, per_file_max |-> <<>>,
     seen |-> <<>>, batches |-> 0]

NoResult == [top_files |-> <<>>, activations |-> <<>>, max_per_file |-> None]

NoQuery ==
    /\ q = NoQueryState
    /\ result = [status |-> "none", value |-> NoResult]

\* get_gui_data: n_features = activation_shape[-1]
NFeatures(d) == d.activation_shape[Len(d.activation_shape)]

\* a query starts: the call of top_fn in get_top_activations
QueryBegin(neuron_idx, n_files, max_val, min_val, absolute_magnitude) ==
    /\ ds.status = "ok"
    /\ q.state = "none"
    /\ neuron_idx \in 1..NFeatures(ds)
    /\ q' = [NoQueryState EXCEPT
               !.state = "running", !.neuron_idx = neuron_idx,
               !.n_files = n_files, !.max_val = max_val, !.min_val = min_val,
               !.absolute_magnitude = absolute_magnitude,
               !.return_max_per_file = TRUE]
    /\ result' = [status |-> "none", value |-> NoResult]
    /\ UNCHANGED <<ds, batch_size, notQueryVars>>

\* the pass takes the source's next batch; at the end of the source the
\* structure is drained and get_top_activations returns; an exception of
\* the source ends the query
QueryBatch ==
    /\ q.state = "running"
    /\ LET r == FetchBatch(ds, batch_size, q.batches + 1)
       IN  IF r.status = "ok"
           THEN /\ q' = [ProcessBatch(q, r.items) EXCEPT !.batches = @ + 1]
                /\ UNCHANGED result
           ELSE IF r.status = "stop"
           THEN /\ q' = [q EXCEPT !.state = "done"]
                /\ result' = [status |-> "ok", value |-> GetTopActivations(Drain(q))]
           ELSE /\ q' = [q EXCEPT !.state = r.status]
                /\ result' = [status |-> r.status, value |-> NoResult]
    /\ UNCHANGED <<ds, batch_size, notQueryVars>>

-----------------------------------------------------------------------------
(* L1 autoencoder: src/src/models/l1autoencoder.py.                         *)
(* decoder.weight has shape [activation_size, n_dict_components]; it is     *)
(* held by columns (dictionary atoms), each a vector of exact fractions     *)
(* v[i] / d with one denominator d > 0.                                     *)

RECURSIVE Gcd(_, _)
Gcd(a, b) == IF b = 0 THEN a ELSE Gcd(b, a % b)

RECURSIVE GcdOf(_)
GcdOf(xs) == IF xs = <<>> THEN 0 ELSE Gcd(Abs(Head(xs)), GcdOf(Tail(xs)))

RECURSIVE SumSq(_)
SumSq(xs) == IF xs = <<>> THEN 0 ELSE Head(xs) * Head(xs) + SumSq(Tail(xs))

\* the integer square root of a perfect square
ISqrt(n) == CHOOSE r \in 0..n : r * r = n

\* a column in lowest terms
Reduce(v, d) ==
    LET g == Gcd(GcdOf(v), d)
    IN  [v |-> [i \in 1..Len(v) |-> v[i] \div g], d |-> d \div g]

\* one column of nn.functional.normalize(weight, dim=0): v / max(||v||, eps)
\* with eps = 1e-12; a zero column has norm 0 < eps and stays zero
NormalizeColumn(col) ==
    LET s == ISqrt(SumSq(col.v))
    IN  IF s = 0 THEN Reduce(col.v, 1) ELSE Reduce(col.v, s)

\* an encode that leaves the weights as they are
NormalizeSkipped(W) == W

\* nn.functional.normalize(self.decoder.weight.data, dim=0)
Normalize(W) == [j \in 1..Len(W) |-> NormalizeColumn(W[j])]

RECURSIVE Dot(_, _)
Dot(x, v) == IF x = <<>> THEN 0 ELSE Head(x) * Head(v) + Dot(Tail(x), Tail(v))

\* self.encoder_bias: torch.zeros(n_dict_components)
encoder_bias == [j \in 1..NDict |-> 0]

\* nn.ReLU on a fraction n / d, d > 0
ReLU(n, d) == [n |-> IF n > 0 THEN n ELSE 0, d |-> d]

\* encode(x): the weights are renormalized in place, then
\* c = relu(x @ weight + encoder_bias)
EncodeOf(W, x) ==
    LET Wn == Normalize(W)
    IN  [weight |-> Wn,
         used |-> Wn,
         latent |-> [j \in 1..Len(Wn) |->
                       ReLU(Dot(x, Wn[j].v) + encoder_bias[j] * Wn[j].d, Wn[j].d)]]

\* nn.init.orthogonal_ on a matrix with fewer rows than columns gives
\* orthonormal rows: here (1, 0, 0, ...) and (0, 3/5, 4/5, 0, ...)
InitWeight ==
    [j \in 1..NDict |->
        IF j = 1 THEN [v |-> <<1, 0>>, d |-> 1]
        ELSE IF j = 2 THEN [v |-> <<0, 3>>, d |-> 5]
        ELSE IF j = 3 THEN [v |-> <<0, 4>>, d |-> 5]
        ELSE [v |-> <<0, 0>>, d |-> 1]]

NoEncode == [x |-> <<>>, used |-> <<>>, latent |-> <<>>, before |-> <<>>]

\* L1AutoEncoder.__init__
NoSae == sae = [weight |-> InitWeight, encodes |-> 0, last |-> NoEncode]

\* the atoms a weight update (an optimizer step, load_state_dict) may leave
Atoms ==
    { [v |-> <<3, 4>>, d |-> 1], [v |-> <<0, 2>>, d |-> 1],
      [v |-> <<-4, 3>>, d |-> 10], [v |-> <<3, 4>>, d |-> 5],
      [v |-> <<0, 0>>, d |-> 1] }

\* the activations given to encode
Inputs == { <<1, 0>>, <<1, -1>>, <<2, 1>> }

\* decoder.weight is assigned by an optimizer step or load_state_dict
UpdateWeights(W) ==
    /\ sae' = [weight |-> W, encodes |-> 0, last |-> NoEncode]
    /\ UNCHANGED notSaeVars

\* encode(x)
Encode(x) ==
    /\ LET r == EncodeOf(sae.weight, x)
       IN  sae' = [weight |-> r.weight,
                   encodes |-> Min(sae.encodes + 1, 2),
                   last |-> [x |-> x, used |-> r.used, latent |-> r.latent,
                             before |-> sae.weight]]
    /\ UNCHANGED notSaeVars

-----------------------------------------------------------------------------
(* Specifications *)

InitRecorderSpec == NoSae /\ InitRecorder /\ NoStore /\ NoLoader /\ NoQuery

SpecRecorder == InitRecorderSpec /\ [][NextRecorder]_vars

\* the tensor collected for the i-th file, of the given shape
TensorOf(i, shape) ==
    [r \in 1..shape[1] |-> [c \in 1..shape[2] |-> 10 * i + (r - 1) * shape[2] + c]]

\* a blob row that belongs to no manifest entry
OrphanRow(i) == <<10 * i + 1, 10 * i + 2, 10 * i + 3, 10 * i + 4>>

\* a store of m manifest entries and nrows blob rows: row i holds the
\* flattened tensor of entry i; the two counts may disagree
InitStore ==
    \E m \in 0..MaxFiles, nrows \in 0..MaxFiles :
        \E shapes \in [1..m -> Shapes] :
            /\ written = [i \in 1..m |-> TensorOf(i, shapes[i])]
            /\ metadata_file = [filenames |-> [i \in 1..m |-> i],
                                tensor_shapes |-> shapes]
            /\ tensor_file = [i \in 1..nrows |->
                                IF i <= m THEN Flatten(written[i]) ELSE OrphanRow(i)]

SubsetSizes == {None} \cup (0..MaxFiles)

NextStore ==
    \/ \E subset_size \in SubsetSizes, b \in 1..MaxBatch : Construct(subset_size, b)
    \/ \E idx \in 1..MaxFiles : GetItem(idx)
    \/ IterBegin
    \/ IterNext

InitStoreSpec == NoSae /\ InitStore /\ NoLoader /\ NoRecorder /\ NoQuery

SpecStore == InitStoreSpec /\ [][NextStore]_vars

\* the request has been answered: nothing of the query is kept for the next
QueryForget ==
    /\ q.state \notin {"none", "running"}
    /\ q' = NoQueryState
    /\ result' = [status |-> "none", value |-> NoResult]
    /\ UNCHANGED <<ds, batch_size, notQueryVars>>

\* the examples a store holds in the query model: positions x features
ExampleTensors ==
    { <<<<1, 0>>, <<0, -9>>>>,
      <<<<9, 3>>, <<-2, 3>>>>,
      <<<<-9, 1>>, <<-9, 0>>>>,
      <<<<3, -9>>, <<0, 9>>>> }

Thresholds == {Unset, <<2>>, <<3>>}

\* a store whose manifest and blob agree, all examples of one shape
InitQueryStore ==
    \E m \in 0..MaxFiles :
        \E tensors \in [1..m -> ExampleTensors] :
            /\ written = tensors
            /\ metadata_file = [filenames |-> [i \in 1..m |-> i],
                                tensor_shapes |-> [i \in 1..m |-> Shape(tensors[i])]]
            /\ tensor_file = [i \in 1..m |-> Flatten(tensors[i])]

InitQuerySpec == NoSae /\ InitQueryStore /\ NoLoader /\ NoRecorder /\ NoQuery

NextQuery ==
    \/ \E subset_size \in SubsetSizes, b \in 1..MaxBatch : Construct(subset_size, b)
    \/ \E neuron_idx \in 1..2, n_files \in 1..MaxResults,
          max_val \in Thresholds, min_val \in Thresholds,
          absolute_magnitude \in BOOLEAN :
          QueryBegin(neuron_idx, n_files, max_val, min_val, absolute_magnitude)
    \/ QueryBatch
    \/ QueryForget

SpecQuery == InitQuerySpec /\ [][NextQuery]_vars

InitSaeSpec == NoSae /\ NoStore /\ NoLoader /\ NoRecorder /\ NoQuery

NextSae ==
    \/ \E W \in [1..NDict -> Atoms] : UpdateWeights(W)
    \/ \E x \in Inputs : Encode(x)

SpecSae == InitSaeSpec /\ [][NextSae]_vars

-----------------------------------------------------------------------------
(* Properties of the recorder *)

\* the invocations of submodule n in the current pass
LogOf(n) == SelectSeq(log, LAMBDA e : e.name = n)

\* the capture ids of the current pass
PassIds == {log[i].id : i \in 1..Len(log)}

\* the capture ids held in the entry of n
IdsIn(acts, n) == {acts[n].seq[i][1] : i \in 1..Len(acts[n].seq)}

\* the step being taken is an invocation of n with an output of length > 1
\* (resp. = 1)
LastIs(l, n) == Len(l) >= 1 /\ l[Len(l)].name = n

\* C1: after every run that returned, with or without a reset before it,
\* the activation mapping holds only captures made during that run.
C1_RunAutoResets ==
    outcome = "returned" =>
        \A n \in Names : IdsIn(activations, n) \subseteq PassIds

\* C2: once a pass has ended, a decoder submodule that was invoked n >= 1
\* times in it, each time with an output of sequence length 1, has an entry
\* of sequence length n holding those n outputs in invocation order.
C2_Concatenation ==
    (pc = "idle" /\ outcome /= "none") =>
        \A n \in DecoderNames :
            LET l == LogOf(n)
            IN  (Len(l) >= 1 /\ \A i \in 1..Len(l) : l[i].len = 1) =>
                    /\ activations[n].present
                    /\ activations[n].seq = [i \in 1..Len(l) |-> <<l[i].id, 1>>]

\* C3: when the first invocation of a decoder submodule in a pass has an
\* output of sequence length > 1, no exception ends the pass and the mapping
\* has no entry for that submodule.
C3_DiscardFirst ==
    \A n \in DecoderNames :
        (LastIs(log, n) /\ log[Len(log)].len > 1 /\ Len(LogOf(n)) = 1) =>
            /\ outcome \notin {"KeyError", "RuntimeError"}
            /\ ~activations[n].present

\* the step is an invocation, during a pass, of decoder submodule n, which
\* has captures accumulated in this pass, with an output of length > 1
DiscardStep(n) ==
    /\ pc = "running"
    /\ activations[n].present
    /\ LogOf(n) /= <<>>
    /\ Len(log') = Len(log) + 1
    /\ LastIs(log', n)
    /\ log'[Len(log')].len > 1

\* the step is an invocation, during a pass, of decoder submodule n, which
\* has no entry, with an output of length 1
RestartStep(n) ==
    /\ pc = "running"
    /\ ~activations[n].present
    /\ Len(log') = Len(log) + 1
    /\ LastIs(log', n)
    /\ log'[Len(log')].len = 1

\* C10 as stated: a capture of sequence length > 1 on a decoder submodule
\* that has accumulated captures leaves that submodule's entry unchanged.
C10_DiscardKeepsEntry ==
    [][\A n \in DecoderNames :
          DiscardStep(n) => activations'[n] = activations[n]]_vars

\* C10 amended: such a capture is dropped and removes the entry accumulated
\* so far for that submodule, leaving the other submodules' entries
\* unchanged; the next capture of length 1 for it starts a new entry that
\* holds nothing but that capture.
C10_DiscardDeletesEntry ==
    [][\A n \in DecoderNames :
          /\ DiscardStep(n) =>
                /\ ~activations'[n].present
                /\ \A m \in Names \ {n} : activations'[m] = activations[m]
          /\ RestartStep(n) =>
                /\ activations'[n].present
                /\ IdsIn(activations', n) = {log'[Len(log')].id}]_vars

\* a decoder submodule accumulated a capture, lost its entry to a capture
\* of length > 1 and started a new entry with the next capture of length 1
C10_Witness ==
    \E n \in DecoderNames :
        LET l == LogOf(n)
        IN  /\ Len(l) = 3
            /\ l[1].len = 1 /\ l[2].len > 1 /\ l[3].len = 1
            /\ LastIs(log, n)
            /\ outcome = "none"
            /\ Len(hooks) = Len(named_modules)
            /\ activations[n].present
            /\ IdsIn(activations, n) = {l[3].id}

\* the number of interception points attached to submodule n
HooksOn(hs, n) == Cardinality({i \in 1..Len(hs) : hs[i] = n})

\* C11: once a run has ended, however it ended, no interception point is
\* attached; during a run every matched submodule has exactly one attached,
\* and no entry of the mapping holds the same captured position twice.
C11_HooksOneRun ==
    /\ pc = "idle" => hooks = <<>>
    /\ pc = "running" =>
           \A n \in activations_to_cache : HooksOn(hooks, n) = 1
    /\ \A n \in Names :
           \A i, j \in 1..Len(activations[n].seq) :
               activations[n].seq[i] = activations[n].seq[j] => i = j

\* C12: whatever the output feature width of a submodule, no pass is ended
\* by an ill-formed concatenation, and the entry stored for the submodule
\* has the width of its output cut to the truncation width, never more.
C12_TruncationConsistent ==
    /\ outcome /= "RuntimeError"
    /\ \A n \in Names :
           activations[n].present =>
               /\ activations[n].width = Min(OutWidth(n), TruncWidth)
               /\ activations[n].width <= TruncWidth

-----------------------------------------------------------------------------
(* Properties of the store and the loader *)

\* every example of the dataset has the same recorded shape: its rows can
\* be stacked into batches
Batchable ==
    \A i \in 1..Len(ds.tensor_shapes) : ds.tensor_shapes[i] = ds.tensor_shapes[1]

\* C5: a loader over n = len(dataset) examples with batch size b yields
\* floor(n / b) batches of exactly b examples each, skips n mod b examples,
\* and reports as its length the number of batches it yields.
C5_Batching ==
    LET n == DatasetLen(ds)
    IN  (ds.status = "ok" /\ Batchable) =>
            /\ \A k \in 1..Len(it.sizes) : it.sizes[k] = batch_size
            /\ it.yielded <= LoaderLen(ds, batch_size)
            /\ it.state \notin {"idle", "running"} =>
                   /\ it.state = "done"
                   /\ it.yielded = n \div batch_size
                   /\ n - it.yielded * batch_size = n % batch_size
                   /\ LoaderLen(ds, batch_size) = it.yielded

\* the same on the stores whose manifest and blob have the same row count
C5_BatchingOfConsistentStore ==
    (Len(metadata_file.filenames) = Len(tensor_file)) => C5_Batching

\* C6: reading an index that has both a manifest entry and a blob row (with
\* or without subset limiting) returns that entry's file identifier and a
\* tensor of the entry's recorded shape whose values, flattened, are the
\* values written for the entry, in the same order.
C6_RoundTrip ==
    (item.status /= "none" /\ item.idx <= Min(DatasetLen(ds), Len(ds.mmap))) =>
        /\ item.status = "ok"
        /\ item.filename = metadata_file.filenames[item.idx]
        /\ Shape(item.tensor) = metadata_file.tensor_shapes[item.idx]
        /\ Flatten(item.tensor) = Flatten(written[item.idx])

\* the second entry, of shape [2, 2], was read back from a store limited to
\* a subset
C6_Witness ==
    /\ item.status = "ok"
    /\ item.idx = 2
    /\ Shape(item.tensor) = <<2, 2>>
    /\ item.tensor = written[2]
    /\ DatasetLen(ds) < Len(metadata_file.filenames)

\* C7: a constructed source has as many file identifiers as recorded shapes
\* and blob rows, in the store and after subset limiting; a store whose
\* manifest and blob disagree in row count is not constructed.
C7_ConsistencyEnforced ==
    ds.status = "ok" =>
        /\ Len(metadata_file.filenames) = Len(tensor_file)
        /\ Len(ds.filenames) = Len(ds.tensor_shapes)
        /\ Len(ds.filenames) = Len(ds.mmap)

-----------------------------------------------------------------------------
(* Properties of the query *)

\* the score of the t-th example the pass met, from its tensor
SeenScore(t) ==
    LET vals == {IF q.absolute_magnitude
                 THEN Abs(q.seen[t].tensor[p][q.neuron_idx])
                 ELSE q.seen[t].tensor[p][q.neuron_idx] :
                     p \in 1..Len(q.seen[t].tensor)}
    IN  CHOOSE v \in vals : \A w \in vals : w <= v

\* the examples met so far whose score lies in the window
Qualifying ==
    {t \in 1..Len(q.seen) :
        /\ q.min_val = Unset \/ SeenScore(t) >= q.min_val[1]
        /\ q.max_val = Unset \/ SeenScore(t) <= q.max_val[1]}

\* the place of example t among the qualifying ones: higher scores first,
\* earlier examples first among equal scores
Rank(t) ==
    1 + Cardinality({u \in Qualifying :
                        \/ SeenScore(u) > SeenScore(t)
                        \/ SeenScore(u) = SeenScore(t) /\ u < t})

C8_EmptySource ==
    (ds.status /= "none" /\ DatasetLen(ds) < batch_size) =>
        /\ ds.status = "ok"
        /\ q.state \notin {"none", "running"} =>
              /\ q.state = "done"
              /\ result.status = "ok"
              /\ result.value.top_files = <<>>
              /\ result.value.activations = <<>>
              /\ result.value.max_per_file = <<>>

\* the same for the sources that could be constructed
C8_OfConstructedSource ==
    ds.status = "ok" => C8_EmptySource

\* a query ended on a constructed source of fewer examples than batch_size
C8_ConstructedReached ==
    ~(ds.status = "ok" /\ DatasetLen(ds) < batch_size /\ q.state = "done")

-----------------------------------------------------------------------------
(* Properties of the autoencoder *)

\* the atom has unit L2 norm
UnitNorm(col) == SumSq(col.v) = col.d * col.d

\* the atom is all zero
ZeroAtom(col) == \A i \in 1..Len(col.v) : col.v[i] = 0

====
